---------------------------- MODULE Spec2Model ----------------------------
(***************************************************************************)
(* linuxprocsmapstocsv: conversion of /proc/<pid>/smaps text to CSV rows.  *)
(*                                                                         *)
(* The dynamic-schema converter (convertSmapsToCsv and its helpers) is     *)
(* modelled as a state machine that consumes one input line per step; the  *)
(* byte-level helpers (isRegionLine, parseRegion, parseField) are          *)
(* operators over sequences of one-character strings, and are also applied *)
(* directly to lines drawn from bounded sets.  The fixed-schema converter  *)
(* of main.go (run, readMapping, readFields, readField) is a second state  *)
(* machine, SpecMain, that consumes one line per step as well.             *)
(*                                                                         *)
(* A byte string is a sequence of one-character strings.  A nil slice and  *)
(* an empty slice are both <<>>: the converter only ever holds a nil       *)
(* FieldNames slice or a non-empty one, so reflect.DeepEqual never sees a  *)
(* non-nil empty slice.  A *region pointer is <<>> (nil) or <<r>>.         *)
(***************************************************************************)
EXTENDS Integers, Sequences, FiniteSets, TLC

(***************************************************************************)
(* Bounds of the model.                                                    *)
(***************************************************************************)
MaxLines == 4

MaxFnLen == 4

MaxPad == 2

MaxRecords == 2

(***************************************************************************)
(* Program constants.                                                      *)
(***************************************************************************)
maxLineLength == 256

lf == "\n"

errBadFormat == "errBadFormat"

(***************************************************************************)
(* Package bytes: the functions the converter calls.                       *)
(***************************************************************************)
Min(S) == CHOOSE x \in S : \A y \in S : x <= y

\* bytes.IndexByte: 0-based index of the first c in s, or -1.
IndexByte(s, c) ==
    LET at == {i \in 1..Len(s) : s[i] = c}
    IN  IF at = {} THEN -1 ELSE Min(at) - 1

\* bytes.Cut with a one-byte separator.
Cut(s, sep) ==
    LET i == IndexByte(s, sep)
    IN  IF i = -1
        THEN [before |-> s, after |-> <<>>, found |-> FALSE]
        ELSE [before |-> SubSeq(s, 1, i),
              after  |-> SubSeq(s, i + 2, Len(s)),
              found  |-> TRUE]

\* bytes.TrimLeft / bytes.TrimRight with a cutset.
TrimLeft(s, cutset) ==
    LET keep == {i \in 1..Len(s) : s[i] \notin cutset}
    IN  IF keep = {} THEN <<>> ELSE SubSeq(s, Min(keep), Len(s))

Max(S) == 0 - Min({0 - x : x \in S})

TrimRight(s, cutset) ==
    LET keep == {i \in 1..Len(s) : s[i] \notin cutset}
    IN  IF keep = {} THEN <<>> ELSE SubSeq(s, 1, Max(keep))

\* The white space bytes.TrimSpace removes that the model's lines can hold.
WhiteSpace == {" ", "\t", "\n", "\r"}

TrimSpace(s) == TrimRight(TrimLeft(s, WhiteSpace), WhiteSpace)


(***************************************************************************)
(* The inputs of the converter.  An input stream is a sequence of lines    *)
(* and whether the last one ends with a newline; the stream holds the      *)
(* lines by their place in LinePool.                                       *)
(***************************************************************************)
RegA == <<"a","-","b"," ","r"," ","0"," ","0",":","1"," ","3"," "," ","/","x">>

RegB == <<"c","-","d"," ","-","p"," ","0"," ","0",":","1"," ","0"," ","[","h",":","p","]"," ">>

\* A region line (a space before its first colon) without the later delimiters.
RegBad == <<"a","-","b"," ","0",":","1">>

FSize == <<"S","i","z","e",":"," "," ","4"," ","k","B">>

FVm == <<"V","m","F","l","a","g","s",":"," ","r","d"," ","w","r"," ">>

Blank == <<>>

\* A Size line of maxLineLength + 1 bytes.
FLong == <<"S","i","z","e",":">> \o [i \in 1..(maxLineLength - 8) |-> " "]
            \o <<"5"," ","k","B">>

LinePool == <<RegA, RegB, RegBad, FSize, FVm, Blank, FLong>>

LineIds == 1..Len(LinePool)

(***************************************************************************)
(* The line reader.                                                        *)
(***************************************************************************)
\* bufio.Reader.ReadBytes(lf) at the line after the `consumed` ones already
\* read: the bytes up to and including the delimiter, or, when the stream
\* ends first, the bytes read so far together with io.EOF.  ReadBytes
\* gathers full buffers until it finds the delimiter, so the line's length
\* plays no part.
ReadBytes(stream, term, consumed) ==
    IF consumed < Len(stream) /\ (consumed + 1 < Len(stream) \/ term)
    THEN [data |-> LinePool[stream[consumed + 1]] \o <<lf>>, err |-> "nil"]
    ELSE IF consumed < Len(stream)
         THEN [data |-> LinePool[stream[consumed + 1]], err |-> "EOF"]
         ELSE [data |-> <<>>, err |-> "EOF"]

readLine(stream, term, consumed) ==
    LET rb == ReadBytes(stream, term, consumed)
    IN  IF rb.err # "nil"
        THEN [line |-> <<>>, err |-> rb.err]
        ELSE [line |-> TrimRight(rb.data, {lf}), err |-> "nil"]

(***************************************************************************)
(* The line classifier.                                                    *)
(***************************************************************************)
\* A classifier that looks for the space anywhere in the line.
isRegionLineBroken(line) ==
    LET i == IndexByte(line, ":")
    IN  IF i = -1 THEN "panic"
        ELSE IF IndexByte(line, " ") # -1 THEN "region" ELSE "field"

\* "panic" when the line holds no colon, else "region" or "field".
isRegionLine(line) ==
    LET i == IndexByte(line, ":")
    IN  IF i = -1 THEN "panic"
        ELSE IF IndexByte(SubSeq(line, 1, i), " ") # -1 THEN "region" ELSE "field"

(***************************************************************************)
(* The region parser.                                                      *)
(***************************************************************************)
NilRegion == <<>>

BadRegion == [ok |-> FALSE, region |-> NilRegion]

\* A parser that strips only the spaces in front of the pathname.
parseRegionNoTrim(line) ==
    LET c1 == Cut(line, "-")
        c2 == Cut(c1.after, " ")
        c3 == Cut(c2.after, " ")
        c4 == Cut(c3.after, " ")
        c5 == Cut(c4.after, " ")
        c6 == Cut(c5.after, " ")
    IN  IF ~c1.found \/ ~c2.found \/ ~c3.found \/ ~c4.found \/ ~c5.found \/ ~c6.found
        THEN BadRegion
        ELSE [ok |-> TRUE,
              region |-> << [AddressStart |-> c1.before,
                             AddressEnd   |-> c2.before,
                             Perms        |-> c3.before,
                             Offset       |-> c4.before,
                             Dev          |-> c5.before,
                             Inode        |-> c6.before,
                             Pathname     |-> TrimLeft(c6.after, {" "})] >>]

\* A parser for which the pathname and the space before it are optional.
parseRegionLenient(line) ==
    LET c1 == Cut(line, "-")
        c2 == Cut(c1.after, " ")
        c3 == Cut(c2.after, " ")
        c4 == Cut(c3.after, " ")
        c5 == Cut(c4.after, " ")
        c6 == Cut(c5.after, " ")
    IN  IF ~c1.found \/ ~c2.found \/ ~c3.found \/ ~c4.found \/ ~c5.found
        THEN BadRegion
        ELSE [ok |-> TRUE,
              region |-> << [AddressStart |-> c1.before,
                             AddressEnd   |-> c2.before,
                             Perms        |-> c3.before,
                             Offset       |-> c4.before,
                             Dev          |-> c5.before,
                             Inode        |-> c6.before,
                             Pathname     |-> TrimSpace(c6.after)] >>]

parseRegion(line) ==
    LET c1 == Cut(line, "-")
        c2 == Cut(c1.after, " ")
        c3 == Cut(c2.after, " ")
        c4 == Cut(c3.after, " ")
        c5 == Cut(c4.after, " ")
        c6 == Cut(c5.after, " ")
    IN  IF ~c1.found THEN BadRegion
        ELSE IF ~c2.found THEN BadRegion
        ELSE IF ~c3.found THEN BadRegion
        ELSE IF ~c4.found THEN BadRegion
        ELSE IF ~c5.found THEN BadRegion
        ELSE IF ~c6.found THEN BadRegion
        ELSE [ok |-> TRUE,
              region |-> << [AddressStart |-> c1.before,
                             AddressEnd   |-> c2.before,
                             Perms        |-> c3.before,
                             Offset       |-> c4.before,
                             Dev          |-> c5.before,
                             Inode        |-> c6.before,
                             Pathname     |-> TrimSpace(c6.after)] >>]

(***************************************************************************)
(* The field parser.                                                       *)
(***************************************************************************)
VmFlags == <<"V", "m", "F", "l", "a", "g", "s">>

\* A parser that cuts the value of every field at its first space.
parseFieldCutAlways(line) ==
    LET c == Cut(line, ":")
    IN  IF ~c.found
        THEN [ok |-> FALSE, name |-> <<>>, value |-> <<>>]
        ELSE [ok |-> TRUE, name |-> c.before,
              value |-> Cut(TrimLeft(c.after, {" "}), " ").before]

parseField(line) ==
    LET c == Cut(line, ":")
        value == TrimLeft(c.after, {" "})
    IN  IF ~c.found
        THEN [ok |-> FALSE, name |-> <<>>, value |-> <<>>]
        ELSE [ok |-> TRUE, name |-> c.before,
              value |-> IF c.before # VmFlags THEN Cut(value, " ").before ELSE value]

(***************************************************************************)
(* The mapping under construction.                                         *)
(***************************************************************************)
ZeroMapping == [Region |-> NilRegion, FieldNames |-> <<>>, FieldValues |-> <<>>]

\* A clear that drops the region and keeps the fields read so far.
clearRegionOnly(mp) == [mp EXCEPT !.Region = NilRegion]

\* m.clear()
clear(mp) == [mp EXCEPT !.Region = NilRegion, !.FieldNames = <<>>, !.FieldValues = <<>>]

appendField(mp, name, value) ==
    [mp EXCEPT !.FieldNames = Append(@, name), !.FieldValues = Append(@, value)]

RegionColumns ==
    << <<"A","d","d","r","e","s","s","S","t","a","r","t">>,
       <<"A","d","d","r","e","s","s","E","n","d">>,
       <<"P","e","r","m","s">>,
       <<"O","f","f","s","e","t">>,
       <<"D","e","v">>,
       <<"I","n","o","d","e">>,
       <<"P","a","t","h","n","a","m","e">> >>

toCSVHeader(mp) == RegionColumns \o mp.FieldNames

\* Dereferences m.Region: a nil pointer panics.
toCSVRecord(mp) ==
    IF mp.Region = NilRegion
    THEN [panic |-> TRUE, row |-> <<>>]
    ELSE LET r == mp.Region[1]
         IN  [panic |-> FALSE,
              row |-> <<r.AddressStart, r.AddressEnd, r.Perms, r.Offset,
                        r.Dev, r.Inode, r.Pathname>> \o mp.FieldValues]

\* A check that compares only the number of names.
checkFieldNamesLenOnly(mp, firstLineFieldNames) ==
    Len(mp.FieldNames) = Len(firstLineFieldNames)

\* TRUE when the check passes (reflect.DeepEqual of the two name slices).
checkFieldNames(mp, firstLineFieldNames) ==
    mp.FieldNames = firstLineFieldNames

(***************************************************************************)
(* The streams the model runs the converter on.                            *)
(***************************************************************************)
RECURSIVE SeqsUpTo(_, _)
SeqsUpTo(S, n) ==
    IF n = 0 THEN {<<>>}
    ELSE LET shorter == SeqsUpTo(S, n - 1)
         IN  shorter \cup {Append(s, x) : s \in shorter, x \in S}

Streams == SeqsUpTo(LineIds, MaxLines)

VARIABLES
    mode,                  \* "run": a conversion; "fn": one helper applied to one
                           \* line; "main": a conversion by main.go
    input,                 \* the stream's lines, as places in LinePool
    terminated,            \* whether the stream's last line ends with a newline
    m,                     \* var m mapping
    firstLineFieldLabels,  \* var firstLineFieldLabels []string
    regionIndex,           \* regionIndex
    prevRegionLineNo,      \* prevRegionLineNo
    lineNo,                \* lineNo
    rows,                  \* the rows the csv.Writer has accepted, in order
    flushes,               \* the number of w.Flush() calls
    result,                \* "running", then how convertSmapsToCsv ended
    errLineNo,             \* the line number a field-names mismatch error reports
    fnLine,                \* the line a helper is applied to
    fnOp,                  \* "idle", then the helper that was applied
    fnOut,                 \* what the helper returned
    br,                    \* main.go: the number of lines br has delivered
    region,                \* main.go: readMapping's region
    fieldsRead             \* main.go: the values readFields has stored in its m

runVars == <<input, terminated, m, firstLineFieldLabels, regionIndex,
             prevRegionLineNo, lineNo, rows, flushes, result, errLineNo>>

fnVars == <<fnLine, fnOp, fnOut>>

mainVars == <<br, region, fieldsRead>>

vars == <<mode, runVars, fnVars, mainVars>>

Lines == [i \in 1..Len(input) |-> LinePool[input[i]]]

NoOut == [ok |-> FALSE]

InitRun ==
    /\ mode = "run"
    /\ input \in Streams
    /\ terminated \in BOOLEAN
    \* a stream whose last line is unterminated has a non-empty last line
    /\ ~terminated => (input # <<>> /\ LinePool[input[Len(input)]] # <<>>)
    /\ m = ZeroMapping
    /\ firstLineFieldLabels = <<>>
    /\ regionIndex = -1
    /\ prevRegionLineNo = 0
    /\ lineNo = 0
    /\ rows = <<>>
    /\ flushes = 0
    /\ result = "running"
    /\ errLineNo = 0
    /\ fnLine = <<>>
    /\ fnOp = "off"
    /\ fnOut = NoOut
    /\ br = 0
    /\ region = NilRegion
    /\ fieldsRead = <<>>

Return(res) ==
    /\ result' = res
    /\ UNCHANGED <<mode, input, terminated, fnVars, mainVars>>

\* for { line, err := readLine(br) ... }: the read fails with an error other
\* than io.EOF, which is returned.
LoopReadError ==
    /\ mode = "run" /\ result = "running"
    /\ Return("errRead")
    /\ UNCHANGED <<m, firstLineFieldLabels, regionIndex, prevRegionLineNo,
                   lineNo, rows, flushes, errLineNo>>

\* One iteration on a line without a colon: isRegionLine panics.
LoopNoColon ==
    /\ mode = "run" /\ result = "running"
    /\ LET rl == readLine(input, terminated, lineNo)
       IN  /\ rl.err = "nil"
           /\ isRegionLine(rl.line) = "panic"
    /\ lineNo' = lineNo + 1
    /\ Return("panicNoColon")
    /\ UNCHANGED <<m, firstLineFieldLabels, regionIndex, prevRegionLineNo,
                   rows, flushes, errLineNo>>

\* One iteration on a field line.
LoopFieldLine ==
    /\ mode = "run" /\ result = "running"
    /\ LET rl == readLine(input, terminated, lineNo)
           f  == parseField(rl.line)
       IN  /\ rl.err = "nil"
           /\ isRegionLine(rl.line) = "field"
           /\ lineNo' = lineNo + 1
           /\ IF ~f.ok
              THEN /\ Return(errBadFormat)
                   /\ m' = m
              ELSE /\ Return("running")
                   /\ m' = appendField(m, f.name, f.value)
    /\ UNCHANGED <<firstLineFieldLabels, regionIndex, prevRegionLineNo,
                   rows, flushes, errLineNo>>

\* csv.Writer.Write as the converter sees it: the row is accepted, or the
\* write fails and the row is not delivered.
Write(rws, row, accepted) == IF accepted THEN Append(rws, row) ELSE rws

\* One iteration on a region line: the mapping read so far is checked and
\* written (the header row first, when it is the first mapping), then the
\* line is parsed and starts the next mapping.
LoopRegionLine ==
    /\ mode = "run" /\ result = "running"
    /\ \E hdrOk, recOk \in BOOLEAN :
       LET rl    == readLine(input, terminated, lineNo)
           ri    == regionIndex + 1
           rec   == toCSVRecord(m)
           rowsH == IF ri = 1 THEN Write(rows, toCSVHeader(m), hdrOk) ELSE rows
           rowsR == IF ri > 0 THEN Write(rowsH, rec.row, recOk) ELSE rows
           first == IF ri = 1 THEN m.FieldNames ELSE firstLineFieldLabels
           pr    == parseRegion(rl.line)
       IN  /\ rl.err = "nil"
           /\ isRegionLine(rl.line) = "region"
           /\ lineNo' = lineNo + 1
           /\ regionIndex' = ri
           /\ IF ri = 1 /\ ~hdrOk
              THEN /\ Return("errSink")
                   /\ rows' = rowsH
                   /\ UNCHANGED <<m, firstLineFieldLabels, prevRegionLineNo,
                                  errLineNo>>
              ELSE IF ri > 1 /\ ~checkFieldNames(m, firstLineFieldLabels)
              THEN /\ Return("errMismatch")
                   /\ errLineNo' = prevRegionLineNo
                   /\ UNCHANGED <<m, firstLineFieldLabels, prevRegionLineNo, rows>>
              ELSE IF ri > 0 /\ rec.panic
              THEN /\ Return("panicNilRegion")
                   /\ firstLineFieldLabels' = first
                   /\ rows' = rowsH
                   /\ UNCHANGED <<m, prevRegionLineNo, errLineNo>>
              ELSE IF ri > 0 /\ ~recOk
              THEN /\ Return("errSink")
                   /\ firstLineFieldLabels' = first
                   /\ rows' = rowsR
                   /\ UNCHANGED <<m, prevRegionLineNo, errLineNo>>
              ELSE IF ~pr.ok
              THEN /\ Return(errBadFormat)
                   /\ firstLineFieldLabels' = first
                   /\ rows' = rowsR
                   /\ UNCHANGED <<m, prevRegionLineNo, errLineNo>>
              ELSE /\ Return("running")
                   /\ firstLineFieldLabels' = first
                   /\ rows' = rowsR
                   /\ m' = [clear(m) EXCEPT !.Region = pr.region]
                   /\ prevRegionLineNo' = lineNo + 1
                   /\ UNCHANGED errLineNo
    /\ UNCHANGED flushes

\* The end of input with the flush deferred (defer w.Flush()): the writer
\* is flushed on every way out of the function.
EndOfInputDeferFlush ==
    /\ mode = "run" /\ result = "running"
    /\ readLine(input, terminated, lineNo).err = "EOF"
    /\ \E recOk, flushOk \in BOOLEAN :
       LET rec == toCSVRecord(m)
       IN  /\ flushes' = flushes + 1
           /\ IF ~checkFieldNames(m, firstLineFieldLabels)
              THEN /\ Return("errMismatch")
                   /\ errLineNo' = prevRegionLineNo
                   /\ UNCHANGED rows
              ELSE IF rec.panic
              THEN /\ Return("panicNilRegion")
                   /\ UNCHANGED <<rows, errLineNo>>
              ELSE IF ~recOk
              THEN /\ Return("errSink")
                   /\ rows' = Write(rows, rec.row, recOk)
                   /\ UNCHANGED errLineNo
              ELSE /\ rows' = Write(rows, rec.row, recOk)
                   /\ Return(IF flushOk THEN "ok" ELSE "errSink")
                   /\ UNCHANGED errLineNo
    /\ UNCHANGED <<m, firstLineFieldLabels, regionIndex, prevRegionLineNo, lineNo>>

\* readLine returns io.EOF: the loop ends, the mapping in progress is
\* checked and written, and the writer is flushed.
EndOfInput ==
    /\ mode = "run" /\ result = "running"
    /\ readLine(input, terminated, lineNo).err = "EOF"
    /\ \E recOk, flushOk \in BOOLEAN :
       LET rec == toCSVRecord(m)
       IN  IF ~checkFieldNames(m, firstLineFieldLabels)
           THEN /\ Return("errMismatch")
                /\ errLineNo' = prevRegionLineNo
                /\ UNCHANGED <<rows, flushes>>
           ELSE IF rec.panic
           THEN /\ Return("panicNilRegion")
                /\ UNCHANGED <<rows, flushes, errLineNo>>
           ELSE IF ~recOk
           THEN /\ Return("errSink")
                /\ rows' = Write(rows, rec.row, recOk)
                /\ UNCHANGED <<flushes, errLineNo>>
           ELSE /\ rows' = Write(rows, rec.row, recOk)
                /\ flushes' = flushes + 1
                /\ Return(IF flushOk THEN "ok" ELSE "errSink")
                /\ UNCHANGED errLineNo
    /\ UNCHANGED <<m, firstLineFieldLabels, regionIndex, prevRegionLineNo, lineNo>>

(***************************************************************************)
(* The helpers applied to single lines.                                    *)
(***************************************************************************)
FnAlphabet == {"a", " ", ":"}

ShortLines == UNION {[1..n -> FnAlphabet] : n \in 0..MaxFnLen}

Starts == {<<"4","d","4">>}

Ends == {<<"4","e">>}

PermsSet == {<<"r","w">>, <<"-","-","-","p">>}

Offsets == {<<"0","0">>}

Devs == {<<"0","0",":","0","1">>, <<"f","d">>}

Inodes == {<<"0">>, <<"1","7">>}

Spaces(n) == [i \in 1..n |-> " "]

LeadSpace == {<<>>, <<"\t">>}

TailSpace == {<<>>, <<" ">>, <<"\t"," ">>}

\* Pathnames without leading or trailing white space.
PathCores == {<<>>, <<"/","x">>, <<"[","a",":","p","]">>, <<"/","a"," ","-","b">>}

Header(start, end, perms, offset, dev, inode, gap, lead, core, tail) ==
    start \o <<"-">> \o end \o <<" ">> \o perms \o <<" ">> \o offset \o <<" ">>
          \o dev \o <<" ">> \o inode \o gap \o lead \o core \o tail

HeaderLines ==
    {Header(s, e, p, o, d, i, Spaces(n), l, c, t) :
        s \in Starts, e \in Ends, p \in PermsSet, o \in Offsets, d \in Devs,
        i \in Inodes, n \in 1..MaxPad, l \in LeadSpace, c \in PathCores,
        t \in TailSpace}

FieldNameSet == {VmFlags, <<"R","s","s">>, <<"V","m">>, <<>>}

\* The first token of a value (no space in it), and what may follow it.
Tokens == {<<"4">>, <<"r","d">>, <<"k","B">>}

Rests == {<<>>, <<" ","k","B">>, <<" ","w","r"," ">>, <<" "," ","x",":","y">>}

Field(name, gap, token, rest) == name \o <<":">> \o gap \o token \o rest

FieldLines ==
    {Field(nm, Spaces(n), tk, rs) :
        nm \in FieldNameSet, n \in 0..MaxPad, tk \in Tokens, rs \in Rests}
    \cup {Field(nm, Spaces(n), <<>>, <<>>) : nm \in FieldNameSet, n \in 0..MaxPad}

\* Header lines that end directly after the inode.
BareHeaders ==
    {Header(s, e, p, o, d, i, <<>>, <<>>, <<>>, <<>>) :
        s \in Starts, e \in Ends, p \in PermsSet, o \in Offsets, d \in Devs,
        i \in Inodes}

\* Two header lines, one of them with a hyphen and a space in its pathname.
BaseHeaders ==
    {Header(<<"4","d","4">>, <<"4","e">>, <<"r","w">>, <<"0","0">>,
            <<"0","0",":","0","1">>, <<"1","7">>, Spaces(1), <<>>, c, <<>>) :
        c \in {<<"/","x">>, <<"/","a"," ","-","b">>}}

Without(l, i) == SubSeq(l, 1, i - 1) \o SubSeq(l, i + 1, Len(l))

\* The base headers cut short, and with one byte left out.
DamagedHeaders ==
    UNION {{SubSeq(h, 1, n) : n \in 0..Len(h)} \cup {Without(h, i) : i \in 1..Len(h)} :
           h \in BaseHeaders}

FnLines == ShortLines \cup HeaderLines \cup FieldLines \cup BareHeaders \cup DamagedHeaders

InitFn ==
    /\ mode = "fn"
    /\ fnLine \in FnLines
    /\ fnOp = "idle"
    /\ fnOut = NoOut
    /\ input = <<>>
    /\ terminated = TRUE
    /\ m = ZeroMapping
    /\ firstLineFieldLabels = <<>>
    /\ regionIndex = -1
    /\ prevRegionLineNo = 0
    /\ lineNo = 0
    /\ rows = <<>>
    /\ flushes = 0
    /\ result = "off"
    /\ errLineNo = 0
    /\ br = 0
    /\ region = NilRegion
    /\ fieldsRead = <<>>

Apply(op, out) ==
    /\ mode = "fn" /\ fnOp = "idle"
    /\ fnOp' = op
    /\ fnOut' = out
    /\ UNCHANGED <<mode, fnLine, runVars, mainVars>>

CallIsRegionLine ==
    Apply("isRegionLine", [ok |-> isRegionLine(fnLine) # "panic",
                           class |-> isRegionLine(fnLine)])

\* parseRegion, then toCSVRecord of mapping{Region: r}.
TestParseRegion ==
    LET pr == parseRegion(fnLine)
    IN  Apply("parseRegion",
              IF pr.ok
              THEN [ok |-> TRUE,
                    row |-> toCSVRecord([ZeroMapping EXCEPT !.Region = pr.region]).row]
              ELSE [ok |-> FALSE, row |-> <<>>])

CallParseField ==
    LET f == parseField(fnLine)
    IN  Apply("parseField", f)

Init == InitRun \/ InitFn

Next ==
    \/ LoopReadError
    \/ LoopNoColon
    \/ LoopFieldLine
    \/ LoopRegionLine
    \/ EndOfInput
    \/ CallIsRegionLine
    \/ TestParseRegion
    \/ CallParseField

Spec == Init /\ [][Next]_vars

(***************************************************************************)
(* The fixed-schema converter (main.go): the column names are written      *)
(* first, then each mapping is read as a region line followed by the       *)
(* fields that readFields asks for, in its order, and written as one row.  *)
(***************************************************************************)
ErrBadFormat == "ErrBadFormat"

LF == "\n"

\* The names of the readField calls of readFields, in the order of the calls.
readFieldsNames ==
    << <<"S","i","z","e">>,
       <<"K","e","r","n","e","l","P","a","g","e","S","i","z","e">>,
       <<"M","M","U","P","a","g","e","S","i","z","e">>,
       <<"R","s","s">>,
       <<"P","s","s">>,
       <<"P","s","s","_","D","i","r","t","y">>,
       <<"S","h","a","r","e","d","_","C","l","e","a","n">>,
       <<"S","h","a","r","e","d","_","D","i","r","t","y">>,
       <<"P","r","i","v","a","t","e","_","C","l","e","a","n">>,
       <<"P","r","i","v","a","t","e","_","D","i","r","t","y">>,
       <<"R","e","f","e","r","e","n","c","e","d">>,
       <<"A","n","o","n","y","m","o","u","s">>,
       <<"K","S","M">>,
       <<"L","a","z","y","F","r","e","e">>,
       <<"A","n","o","n","H","u","g","e","P","a","g","e","s">>,
       <<"S","h","m","e","m","P","m","d","M","a","p","p","e","d">>,
       <<"F","i","l","e","P","m","d","M","a","p","p","e","d">>,
       <<"S","h","a","r","e","d","_","H","u","g","e","t","l","b">>,
       <<"P","r","i","v","a","t","e","_","H","u","g","e","t","l","b">>,
       <<"S","w","a","p">>,
       <<"S","w","a","p","P","s","s">>,
       <<"L","o","c","k","e","d">>,
       <<"T","H","P","e","l","i","g","i","b","l","e">>,
       <<"P","r","o","t","e","c","t","i","o","n","K","e","y">>,
       <<"V","m","F","l","a","g","s">> >>

\* The header row that run writes before it reads the input.
HeaderRow ==
    RegionColumns \o readFieldsNames

\* The names whose value is the rest of the line.
RestOfLineNames ==
    {<<"T","H","P","e","l","i","g","i","b","l","e">>,
     <<"P","r","o","t","e","c","t","i","o","n","K","e","y">>,
     <<"V","m","F","l","a","g","s">>}

\* The lines of the fixed-schema input.  A line is <<0, kind>> for a region
\* line and <<i, kind>> for a line of the i-th field of readFields.
LineKinds == {"good", "nocolon", "nounit", "badunit"}

SmapsLine(l) ==
    LET i    == l[1]
        kind == l[2]
        name == readFieldsNames[i]
    IN  IF i = 0
        THEN IF kind = "good" THEN RegA ELSE RegBad
        ELSE IF kind = "nocolon" THEN name \o <<" ","4"," ","k","B">>
        ELSE IF kind = "nounit"  THEN name \o <<":"," ","4">>
        ELSE IF kind = "badunit" THEN name \o <<":"," ","4"," ","m","B">>
        ELSE IF name = VmFlags   THEN name \o <<":"," ","r","d"," ","w","r"," ">>
        ELSE IF name \in RestOfLineNames THEN name \o <<":"," "," "," ","0">>
        ELSE name \o <<":"," "," ","4"," ","k","B">>

\* r.ReadBytes(LF) at the line after the `consumed` ones already read: the
\* bytes up to and including the newline, or, when the stream ends first,
\* the bytes read so far together with io.EOF.
ReadBytesLF(stream, term, consumed) ==
    IF consumed < Len(stream) /\ (consumed + 1 < Len(stream) \/ term)
    THEN [data |-> SmapsLine(stream[consumed + 1]) \o <<LF>>, err |-> "nil"]
    ELSE IF consumed < Len(stream)
         THEN [data |-> SmapsLine(stream[consumed + 1]), err |-> "EOF"]
         ELSE [data |-> <<>>, err |-> "EOF"]

parseRegionMain(line) ==
    LET c1 == Cut(line, "-")
        c2 == Cut(c1.after, " ")
        c3 == Cut(c2.after, " ")
        c4 == Cut(c3.after, " ")
        c5 == Cut(c4.after, " ")
        c6 == Cut(c5.after, " ")
    IN  IF ~c1.found THEN [err |-> ErrBadFormat, region |-> NilRegion]
        ELSE IF ~c2.found THEN [err |-> ErrBadFormat, region |-> NilRegion]
        ELSE IF ~c3.found THEN [err |-> ErrBadFormat, region |-> NilRegion]
        ELSE IF ~c4.found THEN [err |-> ErrBadFormat, region |-> NilRegion]
        ELSE IF ~c5.found THEN [err |-> ErrBadFormat, region |-> NilRegion]
        ELSE IF ~c6.found THEN [err |-> ErrBadFormat, region |-> NilRegion]
        ELSE [err |-> "nil",
              region |-> << [AddressStart |-> c1.before,
                             AddressEnd   |-> c2.before,
                             Perms        |-> c3.before,
                             Offset       |-> c4.before,
                             Dev          |-> c5.before,
                             Inode        |-> c6.before,
                             Pathname     |-> TrimSpace(c6.after)] >>]

\* readField on what r.ReadBytes(LF) returned: the error, and the value
\* stored in the field when the error is nil.
readField(rb, name) ==
    LET line == TrimRight(rb.data, {LF})
        c    == Cut(line, ":")
        rest == TrimLeft(c.after, {" "})
        v    == Cut(TrimLeft(rest, {" "}), " ")
    IN  IF rb.err # "nil" THEN [err |-> rb.err, value |-> <<>>]
        ELSE IF ~c.found \/ c.before # name THEN [err |-> ErrBadFormat, value |-> <<>>]
        ELSE IF name \in RestOfLineNames THEN [err |-> "nil", value |-> rest]
        ELSE IF ~v.found \/ v.after # <<"k","B">> THEN [err |-> ErrBadFormat, value |-> <<>>]
        ELSE [err |-> "nil", value |-> v.before]

\* Mapping.toCSVRecord for the region and the field values in struct order.
toCSVRecordMain(reg, vals) ==
    LET r == reg[1]
    IN  <<r.AddressStart, r.AddressEnd, r.Perms, r.Offset, r.Dev, r.Inode,
          r.Pathname>> \o vals

(***************************************************************************)
(* The inputs the fixed-schema converter is run on: complete records, and  *)
(* at most one record that is damaged or cut short.                        *)
(***************************************************************************)
\* A region line and the line of every field, in the order of readFields.
GoodRecord == [j \in 1..(Len(readFieldsNames) + 1) |-> <<j - 1, "good">>]

FieldNos == 1..Len(readFieldsNames)

\* One field line in another form.
MisformedRecords ==
    {[GoodRecord EXCEPT ![i + 1] = <<i, k>>] : i \in FieldNos, k \in LineKinds \ {"good"}}

\* One field line replaced by the line of the next field.
MisnamedRecords ==
    {[GoodRecord EXCEPT ![i + 1] = <<(i % Len(readFieldsNames)) + 1, "good">>] :
        i \in FieldNos}

\* Two neighbouring field lines in the other order.
SwappedRecords ==
    {[GoodRecord EXCEPT ![i + 1] = <<i + 1, "good">>, ![i + 2] = <<i, "good">>] :
        i \in FieldNos \ {Len(readFieldsNames)}}

\* One field line left out.
ShortRecords == {Without(GoodRecord, i + 1) : i \in FieldNos}

MalformedHeaderRecord == [GoodRecord EXCEPT ![1] = <<0, "bad">>]

\* A record that ends early: after the region line or after a field line,
\* which may be a line in another form.
CutRecords ==
    {SubSeq(GoodRecord, 1, n) : n \in 1..Len(readFieldsNames)}
    \cup {SubSeq([GoodRecord EXCEPT ![i + 1] = <<i, k>>], 1, i + 1) :
            i \in FieldNos, k \in LineKinds \ {"good"}}

DamagedRecords ==
    MisformedRecords \cup MisnamedRecords \cup SwappedRecords \cup ShortRecords
        \cup {MalformedHeaderRecord} \cup CutRecords

GoodRecords(n) ==
    [j \in 1..(n * Len(GoodRecord)) |-> GoodRecord[((j - 1) % Len(GoodRecord)) + 1]]

MainInputs ==
    {GoodRecords(a) : a \in 0..MaxRecords}
    \cup {GoodRecords(ab[1]) \o d \o GoodRecords(ab[2]) :
            ab \in {x \in (0..(MaxRecords - 1)) \X (0..(MaxRecords - 1)) :
                        x[1] + x[2] <= MaxRecords - 1},
            d \in DamagedRecords}

InitMain ==
    /\ mode = "main"
    /\ input \in MainInputs
    /\ terminated \in BOOLEAN
    /\ ~terminated => input # <<>>
    /\ rows = <<>>
    /\ flushes = 0
    /\ result = "running"
    /\ br = 0
    /\ region = NilRegion
    /\ fieldsRead = <<>>
    /\ m = ZeroMapping
    /\ firstLineFieldLabels = <<>>
    /\ regionIndex = -1
    /\ prevRegionLineNo = 0
    /\ lineNo = 0
    /\ errLineNo = 0
    /\ fnLine = <<>>
    /\ fnOp = "off"
    /\ fnOut = NoOut

\* What the dynamic converter and the helper calls use, untouched by main.go.
otherVars == <<mode, input, terminated, m, firstLineFieldLabels, regionIndex,
               prevRegionLineNo, lineNo, errLineNo, fnVars>>

\* run before its loop: w.Write of the column names.  Nothing has been
\* written yet exactly when the run has not passed this write.
RunWriteHeader ==
    /\ mode = "main" /\ result = "running" /\ rows = <<>>
    /\ \E hdrOk \in BOOLEAN :
          /\ rows' = Write(rows, HeaderRow, hdrOk)
          /\ result' = IF hdrOk THEN "running" ELSE "errSink"
    /\ UNCHANGED <<flushes, mainVars, otherVars>>

\* r.ReadBytes(LF) fails with an error other than io.EOF, in readMapping or
\* in readField: run returns it.
RunReadError ==
    /\ mode = "main" /\ result = "running" /\ rows # <<>>
    /\ result' = "errRead"
    /\ UNCHANGED <<rows, flushes, mainVars, otherVars>>

\* readMapping up to its call of readFields: the region line is read and
\* parsed.
readMappingRegion ==
    /\ mode = "main" /\ result = "running" /\ rows # <<>>
    /\ region = NilRegion
    /\ LET rb == ReadBytesLF(input, terminated, br)
           pr == parseRegionMain(rb.data)
       IN  /\ rb.err = "nil"
           /\ br' = br + 1
           /\ IF pr.err # "nil"
              THEN /\ result' = pr.err
                   /\ UNCHANGED region
              ELSE /\ result' = "running"
                   /\ region' = pr.region
    /\ UNCHANGED <<rows, flushes, fieldsRead, otherVars>>

\* The next readField call of readFields.  After the last one readFields
\* and readMapping return and run writes the mapping's row.
readFieldsNext ==
    /\ mode = "main" /\ result = "running" /\ rows # <<>>
    /\ region # NilRegion
    /\ \E recOk \in BOOLEAN :
       LET rb   == ReadBytesLF(input, terminated, br)
           f    == readField(rb, readFieldsNames[Len(fieldsRead) + 1])
           vals == Append(fieldsRead, f.value)
       IN  /\ rb.err = "nil"
           /\ br' = br + 1
           /\ IF f.err # "nil"
              THEN /\ result' = f.err
                   /\ UNCHANGED <<rows, region, fieldsRead>>
              ELSE IF Len(vals) < Len(readFieldsNames)
              THEN /\ recOk
                   /\ fieldsRead' = vals
                   /\ UNCHANGED <<rows, region, result>>
              ELSE /\ rows' = Write(rows, toCSVRecordMain(region, vals), recOk)
                   /\ result' = IF recOk THEN "running" ELSE "errSink"
                   /\ region' = NilRegion
                   /\ fieldsRead' = <<>>
    /\ UNCHANGED <<flushes, otherVars>>

\* r.ReadBytes(LF) returns io.EOF, in readMapping or in readField: run
\* leaves its loop, flushes the writer and returns the writer's error.
RunEndOfStream ==
    /\ mode = "main" /\ result = "running" /\ rows # <<>>
    /\ ReadBytesLF(input, terminated, br).err = "EOF"
    /\ \E flushOk \in BOOLEAN :
          /\ flushes' = flushes + 1
          /\ result' = IF flushOk THEN "ok" ELSE "errSink"
    /\ UNCHANGED <<rows, mainVars, otherVars>>

NextMain ==
    \/ RunWriteHeader
    \/ RunReadError
    \/ readMappingRegion
    \/ readFieldsNext
    \/ RunEndOfStream

SpecMain == InitMain /\ [][NextMain]_vars

(***************************************************************************)
(* What the properties below say about lines and streams, stated without   *)
(* the converter's own helpers.                                            *)
(***************************************************************************)
HasColon(l) == \E i \in 1..Len(l) : l[i] = ":"

FirstColon(l) == CHOOSE i \in 1..Len(l) : l[i] = ":" /\ \A j \in 1..(i - 1) : l[j] # ":"

SpaceBeforeColon(l) == HasColon(l) /\ \E j \in 1..(FirstColon(l) - 1) : l[j] = " "

ExpectedClass(l) ==
    IF ~HasColon(l) THEN "panic"
    ELSE IF SpaceBeforeColon(l) THEN "region" ELSE "field"

NameOf(l) == SubSeq(l, 1, FirstColon(l) - 1)

\* The pool's well-formed region header lines and field lines.
GoodHeaders == {RegA, RegB}

GoodFields == {FSize, FVm, FLong}

HeaderLineNos == {i \in 1..Len(input) : ExpectedClass(Lines[i]) = "region"}

NumRegions == Cardinality(HeaderLineNos)

\* The line number of the k-th region header line.
HeaderLineNo(k) ==
    CHOOSE i \in HeaderLineNos : Cardinality({j \in HeaderLineNos : j <= i}) = k

\* The last line of the region whose header is line i.
RegionEnd(i) ==
    IF \E j \in HeaderLineNos : j > i
    THEN Min({j \in HeaderLineNos : j > i}) - 1
    ELSE Len(input)

\* The field names of the region whose header is line i, in input order.
RegionNames(i) == [j \in 1..(RegionEnd(i) - i) |-> NameOf(Lines[i + j])]

\* Every line is a well-formed header or field line, the first a header.
WellFormedStream ==
    /\ input # <<>>
    /\ Lines[1] \in GoodHeaders
    /\ \A i \in 1..Len(input) : Lines[i] \in GoodHeaders \cup GoodFields

SameNamesEverywhere ==
    \A i \in HeaderLineNos : RegionNames(i) = RegionNames(HeaderLineNo(1))

Finished == mode = "run" /\ result # "running"

\* The run ended by a failure of the input stream or of the sink.
IOFault == result \in {"errRead", "errSink"}

IsHeaderRow(row) == Len(row) >= 7 /\ SubSeq(row, 1, 7) = RegionColumns

(***************************************************************************)
(* C1.  For every newline-terminated input of R >= 1 regions that all      *)
(* report the same field names in the same order (no line longer than the  *)
(* line cap, no stream or sink failure), the run returns no error and the  *)
(* sink holds exactly one header row followed by exactly R data rows.      *)
(* The converter breaks this for R = 1.                                    *)
(***************************************************************************)
C1_SameNamesSucceed ==
    (/\ Finished /\ ~IOFault
     /\ terminated /\ WellFormedStream /\ SameNamesEverywhere
     /\ \A i \in 1..Len(input) : Len(Lines[i]) <= maxLineLength)
    => /\ result = "ok"
       /\ Len(rows) = 1 + NumRegions
       /\ IsHeaderRow(rows[1])
       /\ \A i \in 2..Len(rows) : ~IsHeaderRow(rows[i])

(***************************************************************************)
(* C2.  In a stream of well-formed lines, let region k (k >= 2) be the     *)
(* first whose field names differ from the first region's (in length, in a *)
(* name or in order).  Then a run that no stream or sink failure ends      *)
(* returns the field-names mismatch error, which reports the line number   *)
(* of region k's header line, and the sink holds no data row of region k   *)
(* or of a later region (at most the header and k - 1 data rows).  The     *)
(* converter breaks this when the names differ by the stream's last line   *)
(* and that line has no newline: the line is dropped (see C3).             *)
(***************************************************************************)
FirstMismatch ==
    Min({k \in 2..NumRegions : RegionNames(HeaderLineNo(k)) # RegionNames(HeaderLineNo(1))})

C2_MismatchAlways ==
    (/\ Finished /\ ~IOFault
     /\ WellFormedStream /\ ~SameNamesEverywhere)
    => /\ result = "errMismatch"
       /\ errLineNo = HeaderLineNo(FirstMismatch)
       /\ Len(rows) <= FirstMismatch

(***************************************************************************)
(* C2 on newline-terminated streams: there the statement holds.  No data   *)
(* row of region k or of a later region is ever written, and a run that no *)
(* stream or sink failure ends returns the mismatch error with the line    *)
(* number of region k's header line, the header and k - 1 data rows        *)
(* written.                                                                *)
(***************************************************************************)
C2_MismatchReported ==
    (/\ mode = "run" /\ terminated /\ WellFormedStream /\ ~SameNamesEverywhere)
    => /\ Len(rows) <= FirstMismatch
       /\ (result # "running" /\ ~IOFault)
            => /\ result = "errMismatch"
               /\ errLineNo = HeaderLineNo(FirstMismatch)
               /\ Len(rows) = FirstMismatch

\* A run that fails on its third region, after two of the four lines.
C2_Witness ==
    /\ mode = "run" /\ terminated /\ WellFormedStream /\ ~SameNamesEverywhere
    /\ result = "errMismatch"
    /\ FirstMismatch = 3
    /\ errLineNo = 3
    /\ Len(rows) = 3

(***************************************************************************)
(* C3.  For an input of exactly one region whose last line has no newline, *)
(* the run succeeds and the sink receives one header row and one data row  *)
(* holding every field of the region, the last line's included (here for  *)
(* a region of at least one field line).  The converter drops the          *)
(* unterminated line.                                                      *)
(***************************************************************************)
C3_UnterminatedLastLine ==
    (/\ Finished /\ ~IOFault
     /\ ~terminated /\ WellFormedStream /\ NumRegions = 1 /\ Len(input) >= 2)
    => /\ result = "ok"
       /\ Len(rows) = 2
       /\ IsHeaderRow(rows[1])
       /\ Len(rows[2]) = 7 + (Len(input) - 1)

(***************************************************************************)
(* C4.  In every run, whenever the sink holds a row, its first row is the  *)
(* header row (the seven fixed column names followed by the first region's *)
(* field names in input order) and no other row is a header row.  The      *)
(* converter writes a data row without a header for a single region.       *)
(***************************************************************************)
C4_HeaderFirstOnce ==
    (mode = "run" /\ rows # <<>>)
    => /\ rows[1] = RegionColumns \o RegionNames(HeaderLineNo(1))
       /\ \A i \in 2..Len(rows) : ~IsHeaderRow(rows[i])

(***************************************************************************)
(* C5.  When end of input is reached and no region header was ever read,   *)
(* the run finishes normally and writes no row.  The converter panics.     *)
(***************************************************************************)
C5_NoRegionNoRow ==
    (/\ Finished /\ ~IOFault
     /\ regionIndex = -1
     /\ lineNo = Len(input)
     /\ \A i \in 1..Len(input) : HasColon(Lines[i]))
    => (result = "ok" /\ rows = <<>>)

(***************************************************************************)
(* C6.  A run that has read a line longer than maxLineLength bytes does    *)
(* not end in success.  The converter reads lines of any length.           *)
(***************************************************************************)
C6_LongLineRejected ==
    (/\ Finished
     /\ \E i \in 1..lineNo : Len(Lines[i]) > maxLineLength)
    => result # "ok"

(***************************************************************************)
(* C7.  For every well-formed region header line                           *)
(* <start>-<end> <perms> <offset> <dev> <inode><spaces><pathname>,         *)
(* parseRegion succeeds and the record of a mapping holding only that      *)
(* region has exactly seven columns: start, end, perms, offset, dev, inode *)
(* and the pathname without its leading and trailing white space.          *)
(***************************************************************************)
C7_RegionRoundTrip ==
    (mode = "fn" /\ fnOp = "parseRegion")
    => \A s \in Starts, e \in Ends, p \in PermsSet, o \in Offsets, d \in Devs,
          i \in Inodes, n \in 1..MaxPad, l \in LeadSpace, c \in PathCores,
          t \in TailSpace :
          fnLine = Header(s, e, p, o, d, i, Spaces(n), l, c, t)
          => fnOut = [ok |-> TRUE, row |-> <<s, e, p, o, d, i, c>>]

\* A header whose pathname holds a colon and a space, between white space.
C7_Witness ==
    /\ mode = "fn" /\ fnOp = "parseRegion"
    /\ fnLine = Header(<<"4","d","4">>, <<"4","e">>, <<"-","-","-","p">>, <<"0","0">>,
                       <<"0","0",":","0","1">>, <<"1","7">>, Spaces(2), <<"\t">>,
                       <<"/","a"," ","-","b">>, <<"\t"," ">>)
    /\ fnOut.ok
    /\ fnOut.row[7] = <<"/","a"," ","-","b">>

(***************************************************************************)
(* C8.  isRegionLine classifies a line by its first colon: region header   *)
(* when an ASCII space precedes the first colon, field line when the line  *)
(* has a colon with no space before the first one, and neither when the    *)
(* line has no colon.  In a run, the lines read so far were handled by     *)
(* that classification, and a line without a colon ends the run at once in *)
(* a fatal condition (a panic) with no row written for it.                 *)
(***************************************************************************)
\* The rows in the sink when nothing failed before line lineNo was read.
RowsBeforeLastLine ==
    LET before == Cardinality({i \in HeaderLineNos : i < lineNo})
    IN  IF before >= 2 THEN before ELSE 0

C8_Classifier ==
    /\ (mode = "fn" /\ fnOp = "isRegionLine")
         => fnOut.class = ExpectedClass(fnLine)
    /\ mode = "run"
         => /\ regionIndex + 1 = Cardinality({i \in HeaderLineNos : i <= lineNo})
            /\ \A i \in 1..lineNo :
                  ~HasColon(Lines[i]) => (i = lineNo /\ result = "panicNoColon")
            /\ result = "panicNoColon"
                  => /\ ~HasColon(Lines[lineNo])
                     /\ Len(rows) = RowsBeforeLastLine
                     /\ flushes = 0

\* A blank line after two regions: the panic leaves the two rows written.
C8_Witness ==
    /\ mode = "run"
    /\ result = "panicNoColon"
    /\ Lines[lineNo] = Blank
    /\ Len(rows) = 2

(***************************************************************************)
(* C9.  parseField on a field line Name:<spaces>rest: the name is the text *)
(* before the first colon; for VmFlags the value is all that follows the   *)
(* leading spaces; for any other name it is the text up to the next space, *)
(* whatever follows; a line with a colon never fails.                      *)
(***************************************************************************)
C9_FieldValue ==
    (mode = "fn" /\ fnOp = "parseField")
    => /\ HasColon(fnLine) => (fnOut.ok /\ fnOut.name = NameOf(fnLine))
       /\ \A nm \in FieldNameSet, n \in 0..MaxPad, tk \in Tokens \cup {<<>>},
             rs \in Rests :
             (fnLine = Field(nm, Spaces(n), tk, rs) /\ (tk = <<>> => rs = <<>>))
             => /\ fnOut.ok
                /\ fnOut.name = nm
                /\ fnOut.value = IF nm = VmFlags THEN tk \o rs ELSE tk

\* VmFlags keeps its flags and the trailing space; Rss loses its unit.
C9_Witness ==
    /\ mode = "fn" /\ fnOp = "parseField"
    /\ fnLine = Field(VmFlags, Spaces(1), <<"r","d">>, <<" ","w","r"," ">>)
    /\ fnOut.value = <<"r","d"," ","w","r"," ">>

(***************************************************************************)
(* C10.  As claimed: whenever a run ends in a fatal condition, no row      *)
(* (header or data) has been delivered to the sink by that run.  Stated    *)
(* here for the fatal conditions that the input alone decides: bad format, *)
(* field-names mismatch, and the panics.                                   *)
(***************************************************************************)
C10_AllOrNothing ==
    (mode = "run" /\ result \notin {"running", "ok"} /\ ~IOFault) => rows = <<>>

(***************************************************************************)
(* C10, amended.  A run that ends in a fatal condition has not flushed the *)
(* sink (unless the flush is what failed), and what it delivered to the    *)
(* sink before the failure stays there: at most the header row and one     *)
(* data row for each region that was complete when the run failed.  A run  *)
(* that ends in success has flushed the sink once.                         *)
(***************************************************************************)
\* The header and one row per region before the last one started.
RowsBound == IF regionIndex >= 1 THEN regionIndex + 1 ELSE 0

C10_RowsOnlyBeforeFailure ==
    /\ (mode = "run" /\ result \notin {"running", "ok"})
         => /\ flushes = 0 \/ (flushes = 1 /\ result = "errSink")
            /\ flushes = 0 => Len(rows) <= RowsBound
    /\ (mode = "run" /\ result = "ok") => (flushes = 1 /\ rows # <<>>)

\* A malformed third header: the header row and two data rows are in the sink.
C10_Witness ==
    /\ mode = "run"
    /\ result = errBadFormat
    /\ Len(rows) = 3
    /\ flushes = 0

(***************************************************************************)
(* C11.  When a field line is read before the first region header line    *)
(* and a region header line is read after it, a run that no stream or      *)
(* sink failure ends returns the bad-format error.  The converter appends  *)
(* the field to the empty mapping and clear() drops it when the first      *)
(* region header line is parsed; the run can end in success.               *)
(***************************************************************************)
C11_LeadingFieldsRejected ==
    (/\ Finished /\ ~IOFault
     /\ regionIndex >= 0
     /\ ExpectedClass(Lines[1]) = "field")
    => result = errBadFormat

(***************************************************************************)
(* C12.  Every data row in the sink has 7 + N columns, N the number of     *)
(* field lines of the first region; the i-th data row is the row of the    *)
(* i-th region of the input: its seven region columns, then the values of  *)
(* that region's own field lines in input order.  The converter breaks     *)
(* this when the stream's last line is a field line without a newline:     *)
(* the line is dropped (see C3) and the region's row lacks its value.      *)
(***************************************************************************)
\* The rows after the header row (written when the second region is read).
DataRows == IF regionIndex >= 1 /\ rows # <<>> THEN Tail(rows) ELSE rows

\* The values of the field lines of the region whose header is line i.
RegionValues(i) == [j \in 1..(RegionEnd(i) - i) |-> parseField(Lines[i + j]).value]

RegionRow(i) ==
    LET r == parseRegion(Lines[i]).region[1]
    IN  <<r.AddressStart, r.AddressEnd, r.Perms, r.Offset, r.Dev, r.Inode,
          r.Pathname>> \o RegionValues(i)

FirstRegionFieldCount == RegionEnd(HeaderLineNo(1)) - HeaderLineNo(1)

C12_RowsAreRegions ==
    mode = "run"
    => \A k \in 1..Len(DataRows) :
          /\ k <= NumRegions
          /\ Len(DataRows[k]) = 7 + FirstRegionFieldCount
          /\ DataRows[k] = RegionRow(HeaderLineNo(k))

(***************************************************************************)
(* C12 on newline-terminated streams: there the statement holds.           *)
(***************************************************************************)
C12_RowsAreRegionsTerminated ==
    (mode = "run" /\ terminated) => C12_RowsAreRegions

\* Two regions with two fields each, both rows written after the header.
C12_Witness ==
    /\ mode = "run" /\ terminated
    /\ result = "ok"
    /\ Len(DataRows) = 2
    /\ FirstRegionFieldCount = 1
    /\ DataRows[1] # DataRows[2]

(***************************************************************************)
(* C13.  As claimed: when the run has read a line that is classified as a  *)
(* region header and lacks one of the six delimiters (no hyphen, or fewer  *)
(* than five spaces after the first hyphen), and no stream or sink failure *)
(* ended the run, the run has returned the bad-format error.               *)
(***************************************************************************)
HasDash(l) == \E i \in 1..Len(l) : l[i] = "-"

FirstDash(l) == CHOOSE i \in 1..Len(l) : l[i] = "-" /\ \A j \in 1..(i - 1) : l[j] # "-"

\* A hyphen, and the five spaces that end end-address, perms, offset, device
\* and inode after it.
WellDelimited(l) ==
    /\ HasDash(l)
    /\ Cardinality({j \in (FirstDash(l) + 1)..Len(l) : l[j] = " "}) >= 5

BadHeader(l) == ExpectedClass(l) = "region" /\ ~WellDelimited(l)

PrevHeaderLineNo == HeaderLineNo(regionIndex)

C14_BareHeaderAccepted ==
    (mode = "fn" /\ fnOp = "parseRegion")
    => \A s \in Starts, e \in Ends, p \in PermsSet, o \in Offsets, d \in Devs,
          i \in Inodes :
          fnLine = Header(s, e, p, o, d, i, <<>>, <<>>, <<>>, <<>>)
          => fnOut = [ok |-> TRUE, row |-> <<s, e, p, o, d, i, <<>>>>]

(***************************************************************************)
(* C15.  While the main loop runs, the number of data rows in the sink is  *)
(* max(0, H - 1), H the number of region header lines read so far.  The    *)
(* row of the k-th region is in the sink only when the header line of      *)
(* region k + 1 has been read or the run has ended at the end of input.    *)
(* One mapping is in flight: it holds the region of the last header line   *)
(* read and the fields of the field lines read since then, nothing else.   *)
(***************************************************************************)
HeadersRead == Cardinality({i \in HeaderLineNos : i <= lineNo})

\* The place where readLine reports the end of input.
AtEndOfInput == readLine(input, terminated, lineNo).err = "EOF"

C15_RowsLagHeaders ==
    mode = "run"
    => /\ regionIndex = HeadersRead - 1
       /\ result = "running"
            => /\ Len(DataRows) = (IF HeadersRead >= 1 THEN HeadersRead - 1 ELSE 0)
               /\ Len(rows) = (IF HeadersRead >= 2 THEN HeadersRead ELSE 0)
       /\ \A k \in 1..Len(DataRows) :
             \/ HeadersRead >= k + 1
             \/ HeadersRead = k /\ result # "running" /\ AtEndOfInput
       /\ (result = "running" /\ HeadersRead >= 1)
            => LET h == HeaderLineNo(HeadersRead)
               IN  /\ m.Region = parseRegion(Lines[h]).region
                   /\ prevRegionLineNo = h
                   /\ m.FieldNames = [j \in 1..(lineNo - h) |-> NameOf(Lines[h + j])]
                   /\ m.FieldValues =
                        [j \in 1..(lineNo - h) |-> parseField(Lines[h + j]).value]

\* The loop after three header lines and a field line of the third region:
\* two data rows are in the sink, the third region is in flight.
C15_Witness ==
    /\ mode = "run"
    /\ result = "running"
    /\ lineNo = 4
    /\ HeadersRead = 3
    /\ Len(DataRows) = 2
    /\ Len(m.FieldValues) = 1

(***************************************************************************)
(* C18.  A run that a read failure or a sink write failure has ended took  *)
(* no step after it: no line is read, no row is written and nothing is     *)
(* flushed once the run has ended.  At a read failure the sink holds what  *)
(* the loop had written; at a failed write it holds the rows written       *)
(* before that write.  The sink is flushed at most once, only at the end   *)
(* of input after every region's row was written, the last region's row    *)
(* last; a run ends in success only after that flush, and a flush that     *)
(* fails ends the run with the sink's error.                               *)
(***************************************************************************)
\* The rows in the sink once the loop has handled the lines read so far.
RowsOfLoop == IF HeadersRead >= 2 THEN HeadersRead ELSE 0

C18_State ==
    mode = "run"
    => /\ flushes \in {0, 1}
       /\ result = "ok" => flushes = 1
       /\ flushes = 1
            => /\ result \in {"ok", "errSink"}
               /\ AtEndOfInput
               /\ HeadersRead >= 1
               /\ Len(DataRows) = HeadersRead
               /\ rows[Len(rows)] = toCSVRecord(m).row
       /\ result = "errRead" => (flushes = 0 /\ Len(rows) = RowsOfLoop)
       /\ (result = "errSink" /\ flushes = 0)
            => \* the header row or the previous region's row, at a header line
               \/ /\ lineNo >= 1 /\ ExpectedClass(Lines[lineNo]) = "region"
                  /\ HeadersRead >= 2
                  /\ Len(rows) = HeadersRead - 1
                       \/ (HeadersRead = 2 /\ rows = <<>>)
               \* the last region's row, at the end of input
               \/ /\ AtEndOfInput
                  /\ HeadersRead >= 1
                  /\ Len(rows) = RowsOfLoop

C18_Step ==
    /\ (mode = "run" /\ result # "running") => UNCHANGED vars
    /\ Len(rows') >= Len(rows) /\ SubSeq(rows', 1, Len(rows)) = rows
    /\ flushes' # flushes => (rows' # rows /\ result' \in {"ok", "errSink"})

C18_IOFailuresEndRun == []C18_State /\ [][C18_Step]_vars

\* The flush fails after the header and both data rows were written.
C18_Witness ==
    /\ mode = "run"
    /\ result = "errSink"
    /\ flushes = 1
    /\ Len(rows) = 3

(***************************************************************************)
(* What the properties of the fixed-schema converter say about its input.  *)
(***************************************************************************)
MainFinished == mode = "main" /\ result # "running"

NumHeaderLines == Cardinality({p \in 1..Len(input) : input[p][1] = 0})

\* Line p is the line a record has at place j (1 the region line, then the
\* fields in the order of readFields; values with the unit kB except for
\* the last three fields).
LineFits(p, j) ==
    /\ p <= Len(input)
    /\ input[p][1] = j - 1
    /\ \/ input[p][2] = "good"
       \/ /\ j - 1 > Len(readFieldsNames) - 3
          /\ input[p][2] \in {"nounit", "badunit"}

\* The place in its record of line p when all lines before it fit.
PlaceOf(p) == ((p - 1) % Len(GoodRecord)) + 1

Misfits == {p \in 1..Len(input) : ~LineFits(p, PlaceOf(p))}

\* The records before line p.
RecordsBefore(p) == (p - 1) \div Len(GoodRecord)

MainDataRows == IF rows = <<>> THEN <<>> ELSE Tail(rows)

(***************************************************************************)
(* C16.  When the fixed-schema converter ends in success, no record is in  *)
(* progress and the number of data rows in the sink is the number of       *)
(* region header lines of the input (here for streams whose last line ends *)
(* with a newline).  The converter ends in success without the row of a    *)
(* record that the end of the stream cuts short.                           *)
(***************************************************************************)
C16_NoRecordDropped ==
    (mode = "main" /\ result = "ok" /\ terminated)
    => /\ region = NilRegion
       /\ Len(MainDataRows) = NumHeaderLines

(***************************************************************************)
(* C17.  Every data row in the sink is the row of a record whose region    *)
(* line is followed by the lines of all fields in the order of readFields, *)
(* each other than the last three with the unit kB; and when some line of  *)
(* the input does not fit (a wrong name, a wrong order, no colon, another  *)
(* unit), a run that no stream or sink failure ends returns ErrBadFormat   *)
(* with only the rows of the records before the first such line written.   *)
(* The converter ends in success when that line is the last of the stream  *)
(* and has no newline (see C16).                                           *)
(***************************************************************************)
C17_RowsOnlyOfFittingRecords ==
    mode = "main"
    => \A k \in 1..Len(MainDataRows) :
          \A j \in 1..Len(GoodRecord) : LineFits((k - 1) * Len(GoodRecord) + j, j)

C17_MisfitIsBadFormat ==
    /\ C17_RowsOnlyOfFittingRecords
    /\ (MainFinished /\ ~IOFault /\ Misfits # {})
         => /\ result = ErrBadFormat
            /\ Len(MainDataRows) = RecordsBefore(Min(Misfits))

(***************************************************************************)
(* C17 on newline-terminated streams: there the statement holds.           *)
(***************************************************************************)
C17_MisfitIsBadFormatTerminated ==
    (mode = "main" /\ terminated) => C17_MisfitIsBadFormat

\* The second record has a field without its unit: one data row is written.
C17_Witness ==
    /\ mode = "main" /\ terminated
    /\ result = ErrBadFormat
    /\ Misfits # {}
    /\ Len(MainDataRows) = 1
    /\ input[Min(Misfits)][2] = "nounit"

=============================================================================
